---- MODULE Spec2Model ----
(***************************************************************************)
(* Beam-centre refinement engine of dials.search_beam_position             *)
(* (src/src/dials/command_line/search_beam_position.py).                   *)
(*                                                                         *)
(* Offsets and detector origins are 2D integer vectors <<a, b>>: the       *)
(* coordinates of a translation a*beamr1 + b*beamr2 in the basis the       *)
(* optimizer builds from the first experiment's beam.  Scores are integers *)
(* in hundredths of the unit the scorer's cosine terms are measured in.    *)
(***************************************************************************)
EXTENDS Integers, Sequences, FiniteSets, TLC

\* ------------------------------------------------------------------ bounds
MaxExpts == 2
MaxCycles == 2
MaxProc == 2
MaxSimplexIter == 1
PanelHalf == 2
\* Side specifications: runs of run() in one process, states of the global
\* generator, size of a reflection table, magnitude of an s0 component.
MaxRuns == 2
GenMod == 16
MaxRefl == 3
MaxS0 == 2

\* --------------------------------------------------------- program constants
\* run_dps: "if len(solutions) < 3"
MinSolutions == 3
\* _sum_score_detail: nh = min(solutions.size(), 20)
NhCap == 20
\* The selection factor 0.9 of stage 1, as the fraction SelNum / SelDen.
SelNum == 9
SelDen == 10
\* The simplex coordinates are scaled by 0.2 (mm); 0.2 mm is the unit of
\* length of this model, so one simplex unit is one unit of offset.
SimplexScale == 1

\* ------------------------------------------------------------------ vectors
Zero2 == <<0, 0>>

Add2(u, v) == <<u[1] + v[1], u[2] + v[2]>>

Scale2(k, u) == <<k * u[1], k * u[2]>>

Abs(a) == IF a < 0 THEN -a ELSE a

Max2(a, b) == IF a >= b THEN a ELSE b

Min2(a, b) == IF a <= b THEN a ELSE b

Cheb(u, v) == Max2(Abs(u[1] - v[1]), Abs(u[2] - v[2]))

Norm2(u) == u[1] * u[1] + u[2] * u[2]

\* A 3D vector num / sqrt(den2) with integer num and den2 > 0, so that
\* normalisation is exact; den2 = 0 marks a name not bound to a vector.
NoVector == [num |-> <<0, 0, 0>>, den2 |-> 0]

RECURSIVE SumSeq(_)
SumSeq(s) == IF s = <<>> THEN 0 ELSE Head(s) + SumSeq(Tail(s))

RECURSIVE MaxSeq(_)
MaxSeq(s) == IF Len(s) = 1 THEN s[1] ELSE Max2(Head(s), MaxSeq(Tail(s)))

\* ------------------------------------------------------------- input spaces
\* Detector origins the caller may hand in: on the beam, or shifted so far
\* that the beam leaves the panel.
Origins == {Zero2, <<PanelHalf + 1, 0>>}

Goniometers == {"none", "rot"}

\* Raw observations of one experiment, abstracted to the detector position
\* (peak) at which their lattice periodicity is in phase, and whether any
\* direction passes the signal-strength gate at all.
Landscapes ==
    {[signal |-> FALSE, peak |-> Zero2]} \cup
    {[signal |-> TRUE, peak |-> p] : p \in {Zero2, <<1, 1>>, <<5, 5>>}}

\* Number of solutions the direction finder may return for one experiment.
SolCounts == {MinSolutions - 1, MinSolutions}

MmScopes == {0, 1, 2}

Binnings == {1, 2}

\* The (mm_search_scope, wide_search_binning) pairs explored: stage 1 off,
\* radius 1, radius 1 by the minimum, radius 2.
SearchScopes ==
    {s \in MmScopes \X Binnings :
        s[1] * s[2] <= 2 /\ (s[1] = 0 => s[2] = 1)}

\* Vertices the random initial simplex is drawn from (flex.random_double in
\* [0, 1)), and the points the minimizer may try afterwards.
InitialSimplexes ==
    {<<Zero2, <<1, 0>>, <<0, 1>>>>, <<<<1, 1>>, <<1, 0>>, <<0, 1>>>>}

TrialVectors == {<<a, b>> : a \in -1..1, b \in -1..1}

VARIABLES
    params,           \* params.labelit: the configuration
    caller,           \* the experiments as the caller handed them in
    reflections,      \* the caller's reflection tables, one per experiment
    experiments,      \* run(): the current experiment list
    cycle,            \* run(): number of completed macro-cycles
    pc,               \* position of the control thread
    err,              \* the exception that ended the run, or "none"
    refl_lists,       \* discover_better_experimental_model: projected copies
    task,             \* pool.map: state of each submitted unit
    found,            \* run_dps: number of solutions DPS returned
    result,           \* pool.map: the value each unit returned
    yielded,          \* pool.map: units whose result the loop has consumed
    finishOrder,      \* history: the order in which the units finished
    solution_lists,   \* aggregated solutions
    amax_list,        \* aggregated amax values
    scores,           \* stage 1: the grid scores
    wide_search_offset, \* stage 1: the winning offset, or "None"
    x,                \* stage 2: the simplex's current best vertex
    iter,             \* stage 2: iterations done
    new_offset,       \* the resolved offset
    new_experiments,  \* the optimizer's return value
    potential_offsets, \* stage 1: the offsets of the selected grid points
    scoredAt,         \* history: the offsets at which a grid score was taken
    scorerCalls,      \* history: arguments of this cycle's scorer calls
    gridEvals,        \* grid scores whose evaluation was started this cycle
    targetEvals,      \* simplex objective calls started this cycle
    roundIn,          \* history: experiments passed to each round
    roundOut,         \* history: experiments returned by each round
    phases,           \* history: the phases entered, in order
    written,          \* experiments.as_file was called
    output,           \* what was written
    seed,             \* params.seed
    max_reflections,  \* params.max_reflections: <<>> for None, or <<count>>
    nrefl,            \* refl.size() of the experiment's reflection table
    gen,              \* state of the process-global random generator
    runNo,            \* which call of run() in this process is executing
    spc,              \* position within that call
    subsets,          \* history: per call, the reflections selected
    simplexes,        \* history: per call, the initial simplex drawn
    s0,               \* experiments[0].beam.get_s0()
    beamr0,           \* optimize_origin_offset_local_scope: beamr0
    beamr1,           \* optimize_origin_offset_local_scope: beamr1
    beamr2,           \* optimize_origin_offset_local_scope: beamr2
    bpc               \* position within the basis construction

seedVars == <<seed, max_reflections, nrefl, gen, runNo, spc, subsets,
              simplexes>>

basisVars == <<s0, beamr0, beamr1, beamr2, bpc>>

engineVars == <<params, caller, reflections, experiments, cycle, pc, err,
                refl_lists, task, found, result, yielded, finishOrder,
                solution_lists, amax_list, scores, wide_search_offset, x,
                iter, new_offset, new_experiments, potential_offsets,
                scoredAt, scorerCalls, gridEvals, targetEvals, roundIn,
                roundOut, phases, written, output>>

vars == <<engineVars, seedVars, basisVars>>

\* What no step of the refinement engine assigns: its inputs, and the state
\* of the generator and of the basis construction studied on their own.
inputVars == <<params, caller, reflections, seedVars, basisVars>>

poolVars == <<task, found, result, yielded, finishOrder, solution_lists,
              amax_list>>

optVars == <<scores, wide_search_offset, x, iter, new_offset,
             new_experiments, potential_offsets, scoredAt, scorerCalls,
             gridEvals, targetEvals>>

histVars == <<roundIn, roundOut, phases>>

outVars == <<written, output>>

N == Len(experiments)

\* ------------------------------------------------------------ error handling
Raise_Swallowed(e) == [pc |-> "Run", err |-> e]

\* An exception raised anywhere below run() propagates through the macro-cycle
\* loop, which has no handler: the run ends.
Raise(e) == [pc |-> "Failed", err |-> e]

\* -------------------------------------------------------------- the detector
OnPanel(origin) == Abs(origin[1]) <= PanelHalf /\ Abs(origin[2]) <= PanelHalf

BeamIntersects_Unchecked(expt) == TRUE

\* detector.get_panel_intersection(beam.get_s0()) != -1
BeamIntersects(expt) == OnPanel(expt.detector.origin)

\* dps_extended.get_new_detector: a deep copy with its origin shifted.
GetNewDetector(detector, offset) ==
    [detector EXCEPT !.origin = Add2(detector.origin, offset)]

\* ---------------------------------------------------------------- the scorer
\* One cosine term of _sum_score_detail, as a function of the distance of the
\* trial detector position from the position at which the data is in phase.
Wave(d) ==
    CASE d = 0 -> 100
      [] d = 1 -> 95
      [] d = 2 -> 90
      [] d = 3 -> 0
      [] OTHER -> -50

\* The contribution of one direction solution: zero when kval does not pass
\* the kval_cutoff gate (no signal, or directions that were not derived from
\* these reflections), the cosine term otherwise.
Backmax(direction, rlp) ==
    IF ~rlp.signal \/ direction.src # rlp.src
    THEN 0
    ELSE Wave(Cheb(rlp.at, rlp.peak))

RECURSIVE SumTerms(_, _, _)
SumTerms(solutions, rlp, nh) ==
    IF nh = 0 THEN 0
    ELSE SumTerms(solutions, rlp, nh - 1) + Backmax(solutions[nh], rlp)

SumScoreDetail(rlp, solutions, amax) ==
    SumTerms(solutions, rlp, Min2(Len(solutions), NhCap))

\* spots_mm.map_centroids_to_reciprocal_space([experiment]): the table's rlp
\* column is overwritten with the projection under the given detector.
MapCentroids(spots, detector) == [spots EXCEPT !.at = detector.origin]

GetOriginOffsetScore(trial_origin_offset, solutions, amax, spots_mm, expt) ==
    SumScoreDetail(
        MapCentroids(spots_mm,
                     GetNewDetector(expt.detector, trial_origin_offset)),
        solutions, amax)

\* The scorer call for experiment i fails before it returns: solution_lists
\* has no entry i, or the experiment has no goniometer to reset.
ScorerFails(exps, sols, i) ==
    i > Len(sols) \/ exps[i].goniometer = "none"

\* 0 when every scorer call of one aggregate evaluation returns, else the
\* first experiment whose call raises.
FirstFail(exps, sols) ==
    IF \E i \in 1..Len(exps) : ScorerFails(exps, sols, i)
    THEN CHOOSE i \in 1..Len(exps) :
            /\ ScorerFails(exps, sols, i)
            /\ \A j \in 1..(i - 1) : ~ScorerFails(exps, sols, j)
    ELSE 0

ScorerError(sols, i) ==
    IF i > Len(sols) THEN "IndexError" ELSE "AttributeError"

\* The aggregate score at one offset: the sum over enumerate(experiments).
AggregateScore(offset, exps, refls, sols, amaxs) ==
    SumSeq([i \in 1..Len(exps) |->
        GetOriginOffsetScore(offset, sols[i], amaxs[i], refls[i], exps[i])])

\* Side effects of the scorer calls for experiments 1..upto at one offset:
\* the shared goniometer's fixed rotation is reset and the table's rlp column
\* is remapped.
ScoredExperiments(exps, upto) ==
    [i \in 1..Len(exps) |->
        IF i <= upto THEN [exps[i] EXCEPT !.goniometer = "ident"]
        ELSE exps[i]]

ScoredReflections(refls, exps, upto, offset) ==
    [i \in 1..Len(refls) |->
        IF i <= upto
        THEN MapCentroids(refls[i], GetNewDetector(exps[i].detector, offset))
        ELSE refls[i]]

\* The number of scorer calls entered in one aggregate evaluation whose first
\* failure is at experiment ff (0: none fails): a missing solution_lists
\* entry fails before the call, a missing goniometer inside it.
CallsMade(exps, sols, ff) ==
    IF ff = 0 THEN Len(exps)
    ELSE IF ff > Len(sols) THEN ff - 1 ELSE ff

\* The arguments of the scorer calls made for experiments 1..upto in one
\* aggregate evaluation: experiment i with solution_lists[i], amax_lists[i].
ScorerCalls(sols, amaxs, upto) ==
    {[expt |-> i, solutions |-> sols[i], amax |-> amaxs[i]] : i \in 1..upto}

\* ------------------------------------------------------------------- Init
ExperimentSpace ==
    [detector : [origin : Origins, px : {1}], goniometer : Goniometers]

ParamSpace ==
    {[n_macro_cycles |-> c, mm_search_scope |-> s[1],
      wide_search_binning |-> s[2], nproc |-> p] :
        c \in 1..MaxCycles, s \in SearchScopes, p \in 1..MaxProc}

\* The engine's control state before the first macro-cycle.
ControlInit ==
    /\ cycle = 0
    /\ pc = "Run"
    /\ err = "none"
    /\ refl_lists = <<>>
    /\ task = <<>>
    /\ found = <<>>
    /\ result = <<>>
    /\ yielded = {}
    /\ finishOrder = <<>>
    /\ solution_lists = <<>>
    /\ amax_list = <<>>
    /\ scores = <<>>
    /\ wide_search_offset = "None"
    /\ x = Zero2
    /\ iter = 0
    /\ new_offset = Zero2
    /\ new_experiments = <<>>
    /\ potential_offsets = <<>>
    /\ scoredAt = <<>>
    /\ scorerCalls = {}
    /\ gridEvals = 0
    /\ targetEvals = 0
    /\ roundIn = <<>>
    /\ roundOut = <<>>
    /\ phases = <<>>
    /\ written = FALSE
    /\ output = <<>>

\* The generator and the basis construction at rest.
SeedIdle ==
    /\ seed = 42
    /\ max_reflections = <<>>
    /\ nrefl = 0
    /\ gen = 0
    /\ runNo = 0
    /\ spc = "Idle"
    /\ subsets = <<>>
    /\ simplexes = <<>>

BasisIdle ==
    /\ s0 = <<0, 0, 1>>
    /\ beamr0 = NoVector
    /\ beamr1 = NoVector
    /\ beamr2 = NoVector
    /\ bpc = "Idle"

Init ==
    /\ params \in ParamSpace
    /\ \E n \in 1..MaxExpts :
          /\ experiments \in [1..n -> ExperimentSpace]
          /\ reflections \in [1..n -> Landscapes]
    /\ caller = experiments
    /\ SeedIdle
    /\ BasisIdle
    /\ ControlInit

\* ------------------------------------------------------- Setup (per cycle)
\* refl = copy.deepcopy(refl); centroid_px_to_mm; map_centroids_to_...
Project(refl, i, expt) ==
    [src |-> i, signal |-> refl.signal, peak |-> refl.peak,
     at |-> expt.detector.origin]

EmptyResult == [solutions |-> <<>>, amax |-> 0]

\* run(): the next iteration of the macro-cycle loop calls
\* discover_better_experimental_model, which checks the reference beam,
\* projects the reflections and submits one unit per experiment to the pool.
Discover ==
    /\ pc = "Run"
    /\ cycle < params.n_macro_cycles
    /\ roundIn' = Append(roundIn, experiments)
    /\ UNCHANGED <<inputVars, experiments, cycle, roundOut, outVars>>
    /\ scores' = <<>>
    /\ wide_search_offset' = "None"
    /\ x' = Zero2
    /\ iter' = 0
    /\ new_offset' = Zero2
    /\ new_experiments' = <<>>
    /\ potential_offsets' = <<>>
    /\ scoredAt' = <<>>
    /\ scorerCalls' = {}
    /\ gridEvals' = 0
    /\ targetEvals' = 0
    /\ yielded' = {}
    /\ finishOrder' = <<>>
    /\ solution_lists' = <<>>
    /\ amax_list' = <<>>
    /\ IF ~BeamIntersects(experiments[1])
       THEN /\ pc' = Raise("input beam does not intersect detector").pc
            /\ err' = Raise("input beam does not intersect detector").err
            /\ task' = <<>>
            /\ found' = <<>>
            /\ result' = <<>>
            /\ refl_lists' = <<>>
            /\ phases' = phases
       ELSE /\ pc' = "Collecting"
            /\ err' = err
            /\ task' = [i \in 1..N |-> "queued"]
            /\ found' = [i \in 1..N |-> 0]
            /\ result' = [i \in 1..N |-> EmptyResult]
            /\ refl_lists' =
                  [i \in 1..N |-> Project(reflections[i], i, experiments[i])]
            /\ phases' = Append(phases, "Collecting")

\* ------------------------------------------------------------ the collector
\* run_dps: an empty result when DPS found fewer than MinSolutions solutions,
\* else the solutions' direction vectors and DPS.amax.
RunDps_NoMinimum(i, nsol) ==
    [solutions |-> [t \in 1..nsol |-> [src |-> i, rank |-> t]], amax |-> i]

RunDps(i, nsol) ==
    IF nsol < MinSolutions
    THEN EmptyResult
    ELSE [solutions |-> [t \in 1..nsol |-> [src |-> i, rank |-> t]],
          amax |-> i]

Running == {i \in 1..N : task[i] = "running"}

\* A pool process takes the oldest queued unit when one of the max_workers
\* processes is idle.
StartTask ==
    /\ pc = "Collecting"
    /\ Cardinality(Running) < params.nproc
    /\ \E i \in 1..N :
          /\ task[i] = "queued"
          /\ \A j \in 1..(i - 1) : task[j] # "queued"
          /\ task' = [task EXCEPT ![i] = "running"]
    /\ UNCHANGED <<inputVars, experiments, cycle, pc, err, refl_lists, found,
                   result, yielded, finishOrder, solution_lists, amax_list,
                   optVars, histVars, outVars>>

\* A running unit finishes: DPS returned nsol solutions for experiment i.
FinishTask ==
    /\ pc = "Collecting"
    /\ \E i \in Running, nsol \in SolCounts :
          /\ found' = [found EXCEPT ![i] = nsol]
          /\ result' = [result EXCEPT ![i] = RunDps(i, nsol)]
          /\ task' = [task EXCEPT ![i] = "done"]
          /\ finishOrder' = Append(finishOrder, i)
    /\ UNCHANGED <<inputVars, experiments, cycle, pc, err, refl_lists,
                   yielded, solution_lists, amax_list, optVars, histVars,
                   outVars>>

Yieldable_AsCompleted(tasks, consumed) ==
    {i \in 1..Len(tasks) : i \notin consumed /\ tasks[i] = "done"}

\* The units whose result pool.map may hand to the loop next: results come
\* back in submission order, so only the first unit not yet consumed, and
\* only once it is done.
Yieldable(tasks, consumed) ==
    {i \in 1..Len(tasks) :
        /\ i \notin consumed
        /\ tasks[i] = "done"
        /\ \A j \in 1..(i - 1) : j \in consumed}

\* One iteration of "for result in pool.map(...)".
YieldResult ==
    /\ pc = "Collecting"
    /\ \E i \in Yieldable(task, yielded) :
          /\ yielded' = yielded \cup {i}
          /\ IF Len(result[i].solutions) > 0
             THEN /\ solution_lists' =
                        Append(solution_lists, result[i].solutions)
                  /\ amax_list' = Append(amax_list, result[i].amax)
             ELSE UNCHANGED <<solution_lists, amax_list>>
    /\ UNCHANGED <<inputVars, experiments, cycle, pc, err, refl_lists, task,
                   found, result, finishOrder, optVars, histVars, outVars>>

\* The pool is shut down once every result was consumed; without any
\* solutions the cycle fails, else the optimizer is called.
PoolExit ==
    /\ pc = "Collecting"
    /\ yielded = 1..N
    /\ IF solution_lists = <<>>
       THEN /\ pc' = Raise("No solutions found").pc
            /\ err' = Raise("No solutions found").err
            /\ phases' = phases
       ELSE /\ pc' = "Stage1"
            /\ err' = err
            /\ phases' = Append(phases, "Optimizing")
    /\ finishOrder' = <<>>
    /\ UNCHANGED <<inputVars, experiments, cycle, refl_lists, task, found,
                   result, yielded, solution_lists, amax_list, optVars,
                   roundIn, roundOut, outVars>>

\* ------------------------------------------------- the optimizer, stage 1
Stage1Enabled_Always(mm_search_scope) == TRUE

\* "if mm_search_scope:"
Stage1Enabled(mm_search_scope) == mm_search_scope # 0

\* plot_px_sz = pixel_size * wide_search_binning
PlotPxSz(exps, binning) == exps[1].detector.px * binning

GridRadius_NoMinimum(mm_search_scope, plot_px_sz) ==
    mm_search_scope \div plot_px_sz

\* grid = max(1, int(mm_search_scope / plot_px_sz))
GridRadius(mm_search_scope, plot_px_sz) ==
    Max2(1, mm_search_scope \div plot_px_sz)

Widegrid(grid) == 2 * grid + 1

\* The offset at which the score with flat index k (from 0) is evaluated:
\* "for y in range(-grid, grid + 1) for x in range(-grid, grid + 1)".
ScoreCoord(k, grid, plot_px_sz) ==
    <<((k % Widegrid(grid)) - grid) * plot_px_sz,
      ((k \div Widegrid(grid)) - grid) * plot_px_sz>>

\* idxs[i] = igrid(i) * plot_px_sz
Idxs(i, grid, plot_px_sz) == (i - (Widegrid(grid) \div 2)) * plot_px_sz

\* offset = idxs[i % widegrid] * beamr1 + idxs[i // widegrid] * beamr2
CandidateOffset(k, grid, plot_px_sz) ==
    <<Idxs(k % Widegrid(grid), grid, plot_px_sz),
      Idxs(k \div Widegrid(grid), grid, plot_px_sz)>>

NoValidScores_MaxNotPositive(sc) == MaxSeq(sc) <= 0

\* scores.all_eq(0)
NoValidScores(sc) == \A k \in 1..Len(sc) : sc[k] = 0

Selected_AtLeast(sc) ==
    {k \in 0..(Len(sc) - 1) : SelDen * sc[k + 1] >= SelNum * MaxSeq(sc)}

Selected_Half(sc) ==
    {k \in 0..(Len(sc) - 1) : 2 * sc[k + 1] > MaxSeq(sc)}

\* sel = scores > (0.9 * flex.max(scores)), as flat indices from 0
Selected(sc) ==
    {k \in 0..(Len(sc) - 1) : SelDen * sc[k + 1] > SelNum * MaxSeq(sc)}

WideSearchOffset_Farthest(sel, grid, plot_px_sz) ==
    LET norm(k) == Norm2(CandidateOffset(k, grid, plot_px_sz))
        best == CHOOSE k \in sel :
                   \A j \in sel : norm(k) > norm(j) \/
                                  (norm(k) = norm(j) /\ k <= j)
    IN  CandidateOffset(best, grid, plot_px_sz)

\* potential_offsets[flex.min_index(potential_offsets.norms())]: the first
\* candidate, in index order, of least norm.
WideSearchOffset(sel, grid, plot_px_sz) ==
    LET norm(k) == Norm2(CandidateOffset(k, grid, plot_px_sz))
        best == CHOOSE k \in sel :
                   \A j \in sel : norm(k) < norm(j) \/
                                  (norm(k) = norm(j) /\ k <= j)
    IN  CandidateOffset(best, grid, plot_px_sz)

GridScores(exps, refls, sols, amaxs, grid, plot_px_sz) ==
    [k \in 1..(Widegrid(grid) * Widegrid(grid)) |->
        AggregateScore(ScoreCoord(k - 1, grid, plot_px_sz),
                       exps, refls, sols, amaxs)]

\* potential_offsets: the offsets of the selected flat indices, in index
\* order ("for i in sel.iselection()").
RECURSIVE PotentialOffsets(_, _, _, _)
PotentialOffsets(sel, upto, grid, plot_px_sz) ==
    IF upto = 0 THEN <<>>
    ELSE IF (upto - 1) \in sel
         THEN Append(PotentialOffsets(sel, upto - 1, grid, plot_px_sz),
                     CandidateOffset(upto - 1, grid, plot_px_sz))
         ELSE PotentialOffsets(sel, upto - 1, grid, plot_px_sz)

WideSearch ==
    /\ pc = "Stage1"
    /\ LET px == PlotPxSz(experiments, params.wide_search_binning)
           grid == GridRadius(params.mm_search_scope, px)
           npts == Widegrid(grid) * Widegrid(grid)
           ff == FirstFail(experiments, solution_lists)
           sc == GridScores(experiments, refl_lists, solution_lists,
                            amax_list, grid, px)
       IN  IF ~Stage1Enabled(params.mm_search_scope)
           THEN /\ wide_search_offset' = "None"
                /\ pc' = "SimplexInit"
                /\ UNCHANGED <<err, scores, gridEvals, experiments,
                               refl_lists, potential_offsets, scoredAt,
                               scorerCalls>>
           ELSE IF ff # 0
           THEN \* the first grid score cannot be evaluated
                /\ pc' = Raise(ScorerError(solution_lists, ff)).pc
                /\ err' = Raise(ScorerError(solution_lists, ff)).err
                /\ gridEvals' = 1
                /\ experiments' = ScoredExperiments(experiments, ff - 1)
                /\ refl_lists' = ScoredReflections(refl_lists, experiments,
                                     ff - 1, ScoreCoord(0, grid, px))
                /\ scorerCalls' =
                      ScorerCalls(solution_lists, amax_list,
                          CallsMade(experiments, solution_lists, ff))
                /\ UNCHANGED <<scores, wide_search_offset,
                               potential_offsets, scoredAt>>
           ELSE /\ scores' = sc
                /\ gridEvals' = npts
                /\ scoredAt' = [k \in 1..npts |-> ScoreCoord(k - 1, grid, px)]
                /\ scorerCalls' = ScorerCalls(solution_lists, amax_list, N)
                /\ experiments' = ScoredExperiments(experiments, N)
                /\ refl_lists' = ScoredReflections(refl_lists, experiments,
                                     N, ScoreCoord(npts - 1, grid, px))
                /\ IF NoValidScores(sc)
                   THEN /\ pc' = Raise("No valid scores").pc
                        /\ err' = Raise("No valid scores").err
                        /\ UNCHANGED <<wide_search_offset,
                                       potential_offsets>>
                   ELSE /\ potential_offsets' =
                              PotentialOffsets(Selected(sc), npts, grid, px)
                        /\ IF Selected(sc) = {}
                           THEN \* flex.min_index of an empty array
                                /\ pc' = Raise("RuntimeError").pc
                                /\ err' = Raise("RuntimeError").err
                                /\ UNCHANGED wide_search_offset
                           ELSE /\ wide_search_offset' =
                                      WideSearchOffset(Selected(sc), grid, px)
                                /\ pc' = "SimplexInit"
                                /\ err' = err
    /\ UNCHANGED <<inputVars, cycle, poolVars, x, iter, new_offset,
                   new_experiments, targetEvals, histVars, outVars>>

\* ------------------------------------------------- the optimizer, stage 2
\* trial_origin_offset = vector[0] * 0.2 * beamr1 + vector[1] * 0.2 * beamr2
\* (+ wide_search_offset when stage 1 ran)
TrialOffset(vector, wide) ==
    IF wide = "None" THEN Scale2(SimplexScale, vector)
    ELSE Add2(Scale2(SimplexScale, vector), wide)

\* simplex_minimizer.target
Target(vector, wide, exps, refls, sols, amaxs) ==
    0 - AggregateScore(TrialOffset(vector, wide), exps, refls, sols, amaxs)

\* The vertex of the initial simplex with the lowest target (the first one
\* when several are lowest).
Lowest(m, wide, exps, refls, sols, amaxs) ==
    LET t(j) == Target(m[j], wide, exps, refls, sols, amaxs)
        best == CHOOSE j \in 1..Len(m) :
                   \A l \in 1..Len(m) : t(j) < t(l) \/ (t(j) = t(l) /\ j <= l)
    IN  m[best]

\* simplex_opt is constructed on a random initial simplex and evaluates the
\* target at each of its vertices.
SimplexInit ==
    /\ pc = "SimplexInit"
    /\ LET ff == FirstFail(experiments, solution_lists)
       IN  \E m \in InitialSimplexes :
            IF ff # 0
            THEN /\ pc' = Raise(ScorerError(solution_lists, ff)).pc
                 /\ err' = Raise(ScorerError(solution_lists, ff)).err
                 /\ targetEvals' = 1
                 /\ scorerCalls' = scorerCalls \cup
                       ScorerCalls(solution_lists, amax_list,
                           CallsMade(experiments, solution_lists, ff))
                 /\ experiments' = ScoredExperiments(experiments, ff - 1)
                 /\ refl_lists' = ScoredReflections(refl_lists, experiments,
                                      ff - 1,
                                      TrialOffset(m[1], wide_search_offset))
                 /\ UNCHANGED x
            ELSE /\ pc' = "Simplex"
                 /\ err' = err
                 /\ targetEvals' = Len(m)
                 /\ scorerCalls' = scorerCalls \cup
                       ScorerCalls(solution_lists, amax_list, N)
                 /\ experiments' = ScoredExperiments(experiments, N)
                 /\ refl_lists' = ScoredReflections(refl_lists, experiments,
                                      N,
                                      TrialOffset(m[Len(m)],
                                                  wide_search_offset))
                 /\ x' = Lowest(m, wide_search_offset, experiments,
                                refl_lists, solution_lists, amax_list)
    /\ UNCHANGED <<inputVars, cycle, poolVars, scores, wide_search_offset,
                   iter, new_offset, new_experiments, potential_offsets,
                   scoredAt, gridEvals, histVars, outVars>>

\* One move of the minimizer: the target is evaluated at a trial vertex,
\* which becomes the best vertex only when its target is lower.
SimplexStep ==
    /\ pc = "Simplex"
    /\ iter < MaxSimplexIter
    /\ \E v \in TrialVectors :
          /\ x' = IF Target(v, wide_search_offset, experiments, refl_lists,
                            solution_lists, amax_list)
                     < Target(x, wide_search_offset, experiments, refl_lists,
                              solution_lists, amax_list)
                  THEN v ELSE x
          /\ refl_lists' = ScoredReflections(refl_lists, experiments, N,
                               TrialOffset(v, wide_search_offset))
    /\ iter' = iter + 1
    /\ targetEvals' = targetEvals + 1
    /\ scorerCalls' = scorerCalls \cup
          ScorerCalls(solution_lists, amax_list, N)
    /\ UNCHANGED <<inputVars, experiments, cycle, pc, err, poolVars, scores,
                   wide_search_offset, new_offset, new_experiments,
                   potential_offsets, scoredAt, gridEvals, histVars,
                   outVars>>

ShiftedCopies_OfReference(exps, offset) ==
    [i \in 1..Len(exps) |->
        [exps[i] EXCEPT !.detector = GetNewDetector(exps[1].detector, offset)]]

\* new_experiments = copy.deepcopy(experiments), each detector replaced by
\* get_new_detector(expt.detector, new_offset)
ShiftedCopies(exps, offset) ==
    [i \in 1..Len(exps) |->
        [exps[i] EXCEPT !.detector = GetNewDetector(exps[i].detector, offset)]]

\* The minimizer has converged: self.offset is computed from its solution and
\* the optimizer returns the shifted copies.
SimplexDone ==
    /\ pc = "Simplex"
    /\ new_offset' = TrialOffset(x, wide_search_offset)
    /\ new_experiments' =
          ShiftedCopies(experiments, TrialOffset(x, wide_search_offset))
    /\ pc' = "Report"
    /\ UNCHANGED <<inputVars, experiments, cycle, err, refl_lists, poolVars,
                   scores, wide_search_offset, x, iter, potential_offsets,
                   scoredAt, scorerCalls, gridEvals, targetEvals, histVars,
                   outVars>>

\* ---------------------------------------------------------- the driver
NextRoundInput_Stale(old, new) == old

\* experiments = discover_better_experimental_model(experiments, ...)
NextRoundInput(old, new) == new

\* discover_better_experimental_model reports the old and the new beam
\* centre (get_ray_intersection fails when the beam misses the new detector)
\* and returns; run() rebinds experiments to the returned list.
Report ==
    /\ pc = "Report"
    /\ IF ~BeamIntersects(new_experiments[1])
       THEN /\ pc' = Raise("RuntimeError").pc
            /\ err' = Raise("RuntimeError").err
            /\ UNCHANGED <<experiments, cycle, roundOut>>
       ELSE /\ pc' = "Run"
            /\ err' = err
            /\ experiments' = NextRoundInput(experiments, new_experiments)
            /\ cycle' = cycle + 1
            /\ roundOut' = Append(roundOut, new_experiments)
    /\ UNCHANGED <<inputVars, refl_lists, poolVars, optVars, roundIn, phases,
                   outVars>>

\* After the last macro-cycle: experiments.as_file(params.output.experiments)
Save ==
    /\ pc = "Run"
    /\ cycle >= params.n_macro_cycles
    /\ written' = TRUE
    /\ output' = experiments
    /\ pc' = "Converged"
    /\ UNCHANGED <<inputVars, experiments, cycle, err, refl_lists, poolVars,
                   optVars, histVars>>

Next ==
    \/ Discover
    \/ StartTask
    \/ FinishTask
    \/ YieldResult
    \/ PoolExit
    \/ WideSearch
    \/ SimplexInit
    \/ SimplexStep
    \/ SimplexDone
    \/ Report
    \/ Save

Spec == Init /\ [][Next]_vars

\* ======================================================================
\* Random draws: run() called MaxRuns times in one process
\* ======================================================================
\* phil_scope: seed = 42, .type = int(value_min=0)
Seeds == {0, 42}

\* phil_scope: max_reflections, None or a count
MaxReflectionsSpace == {<<>>} \cup {<<k>> : k \in 1..(MaxRefl - 1)}

\* The generator is a deterministic function of its state: a draw returns
\* a value determined by the state and moves the state on.
Advance(g, draws) == (g + draws) % GenMod

\* flex.random_double: a number in [0, 1), as its numerator over GenMod.
RandomDouble(g) == g % GenMod

RECURSIVE Without(_, _)
Without(items, k) ==
    IF k = 1 THEN Tail(items)
    ELSE <<Head(items)>> \o Without(Tail(items), k - 1)

\* flex.random_permutation(n): the permutation of items that the state
\* selects (the state read as a factorial-base index).
RECURSIVE Permute(_, _)
Permute(g, items) ==
    IF items = <<>> THEN <<>>
    ELSE LET k == (g % Len(items)) + 1
         IN  <<items[k]>> \o Permute(g \div Len(items), Without(items, k))

RandomPermutation(g, size) == Permute(g, [i \in 1..size |-> i])

\* matrix=[flex.random_double(self.n) for _ in range(self.n + 1)], n = 2
RandomSimplex(g) ==
    [v \in 1..3 |-> <<RandomDouble(Advance(g, 2 * (v - 1))),
                      RandomDouble(Advance(g, 2 * (v - 1) + 1))>>]

InitSeed ==
    /\ seed \in Seeds
    /\ max_reflections \in MaxReflectionsSpace
    /\ nrefl \in 1..MaxRefl
    /\ gen \in 0..(GenMod - 1)
    /\ runNo = 1
    /\ spc = "Subsample"
    /\ subsets = <<>>
    /\ simplexes = <<>>
    /\ BasisIdle
    /\ params = [n_macro_cycles |-> 1, mm_search_scope |-> 0,
                 wide_search_binning |-> 1, nproc |-> 1]
    /\ experiments = <<>>
    /\ reflections = <<>>
    /\ caller = <<>>
    /\ ControlInit

\* discover_better_experimental_model: a table larger than max_reflections
\* is cut down to the head of a random permutation.  No statement of the
\* program reads params.seed or sets the generator before this draw.
Subsample ==
    /\ spc = "Subsample"
    /\ IF max_reflections # <<>> /\ nrefl > max_reflections[1]
       THEN /\ subsets' = Append(subsets,
                  SubSeq(RandomPermutation(gen, nrefl), 1,
                         max_reflections[1]))
            /\ gen' = Advance(gen, 1)
       ELSE /\ subsets' = Append(subsets, [i \in 1..nrefl |-> i])
            /\ gen' = gen
    /\ spc' = "Simplex"
    /\ UNCHANGED <<seed, max_reflections, nrefl, runNo, simplexes,
                   basisVars, engineVars>>

\* simplex_minimizer.__init__: the initial simplex is three random vertices.
DrawSimplex ==
    /\ spc = "Simplex"
    /\ simplexes' = Append(simplexes, RandomSimplex(gen))
    /\ gen' = Advance(gen, 6)
    /\ spc' = "Done"
    /\ UNCHANGED <<seed, max_reflections, nrefl, runNo, subsets,
                   basisVars, engineVars>>

\* run() is called again in the same process with the same arguments; the
\* generator is where the previous call left it.
RunAgain ==
    /\ spc = "Done"
    /\ runNo < MaxRuns
    /\ runNo' = runNo + 1
    /\ spc' = "Subsample"
    /\ UNCHANGED <<seed, max_reflections, nrefl, gen, subsets, simplexes,
                   basisVars, engineVars>>

NextSeed ==
    \/ Subsample
    \/ DrawSimplex
    \/ RunAgain

SpecSeed == InitSeed /\ [][NextSeed]_vars

\* ======================================================================
\* The offset basis of optimize_origin_offset_local_scope
\* ======================================================================
Col(v) == [num |-> v, den2 |-> 1]

Dot3(u, v) == u[1] * v[1] + u[2] * v[2] + u[3] * v[3]

Cross3(u, v) ==
    <<u[2] * v[3] - u[3] * v[2],
      u[3] * v[1] - u[1] * v[3],
      u[1] * v[2] - u[2] * v[1]>>

Cross(a, b) == [num |-> Cross3(a.num, b.num), den2 |-> a.den2 * b.den2]

\* matrix.col.normalize: self / abs(self); dividing by a zero length raises.
Normalize(a) ==
    IF Dot3(a.num, a.num) = 0 THEN NoVector
    ELSE [num |-> a.num, den2 |-> Dot3(a.num, a.num)]

\* approx_equal(a.dot(b), 0.0)
DotIsZero(a, b) == Dot3(a.num, b.num) = 0

IsUnit(a) == Dot3(a.num, a.num) = a.den2

\* s0 of a valid beam: any non-zero vector, of length 1 / wavelength.
S0Space ==
    {v \in (-MaxS0..MaxS0) \X (-MaxS0..MaxS0) \X (-MaxS0..MaxS0) :
        v # <<0, 0, 0>>}

InitBasis ==
    /\ s0 \in S0Space
    /\ beamr0 = NoVector
    /\ beamr1 = NoVector
    /\ beamr2 = NoVector
    /\ bpc = "beamr0"
    /\ SeedIdle
    /\ params = [n_macro_cycles |-> 1, mm_search_scope |-> 0,
                 wide_search_binning |-> 1, nproc |-> 1]
    /\ experiments = <<>>
    /\ reflections = <<>>
    /\ caller = <<>>
    /\ ControlInit

\* beamr0 = s0.cross(axis).normalize(), axis = (1, 0, 0)
Beamr0 ==
    /\ bpc = "beamr0"
    /\ beamr0' = Normalize(Cross(Col(s0), Col(<<1, 0, 0>>)))
    /\ bpc' = IF beamr0' = NoVector THEN "ZeroDivisionError"
              ELSE "beamr1"
    /\ UNCHANGED <<s0, beamr1, beamr2, seedVars, engineVars>>

\* beamr1 = beamr0.cross(s0).normalize()
Beamr1 ==
    /\ bpc = "beamr1"
    /\ beamr1' = Normalize(Cross(beamr0, Col(s0)))
    /\ bpc' = IF beamr1' = NoVector THEN "ZeroDivisionError"
              ELSE "beamr2"
    /\ UNCHANGED <<s0, beamr0, beamr2, seedVars, engineVars>>

\* beamr2 = beamr1.cross(s0).normalize()
Beamr2 ==
    /\ bpc = "beamr2"
    /\ beamr2' = Normalize(Cross(beamr1, Col(s0)))
    /\ bpc' = IF beamr2' = NoVector THEN "ZeroDivisionError"
              ELSE "assert"
    /\ UNCHANGED <<s0, beamr0, beamr1, seedVars, engineVars>>

\* The three asserts on the dot products.
AssertBasis ==
    /\ bpc = "assert"
    /\ bpc' = IF /\ DotIsZero(Col(s0), beamr1)
                 /\ DotIsZero(Col(s0), beamr2)
                 /\ DotIsZero(beamr2, beamr1)
              THEN "Built" ELSE "AssertionError"
    /\ UNCHANGED <<s0, beamr0, beamr1, beamr2, seedVars, engineVars>>

NextBasis ==
    \/ Beamr0
    \/ Beamr1
    \/ Beamr2
    \/ AssertBasis

SpecBasis == InitBasis /\ [][NextBasis]_vars

\* ======================================================================
\* Properties
\* ======================================================================
\* The collector has consumed every unit's result of the current cycle.
AllCollected == found # <<>> /\ yielded = 1..N

Usable(i) == found[i] >= MinSolutions

\* The sum of the scores of the experiments that yielded enough solutions,
\* each scored with its own solutions and amax.
UsableScore(offset) ==
    SumSeq([i \in 1..N |->
        IF Usable(i)
        THEN GetOriginOffsetScore(offset, result[i].solutions,
                                  result[i].amax, refl_lists[i],
                                  experiments[i])
        ELSE 0])

MixedCycle ==
    /\ AllCollected
    /\ \E i \in 1..N : Usable(i)
    /\ \E i \in 1..N : ~Usable(i)

\* C1: in a cycle where some experiments yield fewer than 3 solutions and
\* some yield 3 or more, the optimizer does not break on the dropped
\* experiments, and every grid score is the sum of the scores of exactly the
\* experiments that yielded 3 or more solutions.
C1_MixedCycleCompletes ==
    MixedCycle =>
        /\ err # "IndexError"
        /\ scores # <<>> =>
              \A k \in 1..Len(scores) :
                 scores[k] = UsableScore(
                     ScoreCoord(k - 1,
                         GridRadius(params.mm_search_scope,
                             PlotPxSz(experiments,
                                      params.wide_search_binning)),
                         PlotPxSz(experiments, params.wide_search_binning)))

AllShort == AllCollected /\ \A i \in 1..N : ~Usable(i)

\* C2: when every experiment's direction search returns fewer than 3
\* solutions the cycle ends with "No solutions found", and neither a grid
\* score nor a simplex objective is evaluated nor a new geometry produced.
C2_NoSolutionsBeforeOptimizer ==
    AllShort =>
        /\ gridEvals = 0
        /\ targetEvals = 0
        /\ scores = <<>>
        /\ new_experiments = <<>>
        /\ Len(roundOut) = cycle
        /\ pc # "Collecting" => (pc = "Failed" /\ err = "No solutions found")

C2_Witness ==
    AllShort /\ N >= 2 /\ pc = "Failed" /\ err = "No solutions found"

AllZero(sc) == \A k \in DOMAIN sc : sc[k] = 0

\* C3: with stage 1 enabled, "No valid scores" is raised exactly when every
\* grid score is zero, before the simplex starts and without a geometry
\* being returned.
C3_NoValidScoresIffAllZero ==
    /\ err = "No valid scores" =>
          /\ params.mm_search_scope > 0
          /\ scores # <<>>
          /\ AllZero(scores)
          /\ pc = "Failed"
          /\ targetEvals = 0
          /\ new_experiments = <<>>
          /\ Len(roundOut) = cycle
    /\ (params.mm_search_scope > 0 /\ scores # <<>> /\ AllZero(scores)) =>
          err = "No valid scores"

C3_Witness ==
    err = "No valid scores" /\ Len(scores) > 1 /\ N >= 2

InOptimizer == pc \in {"SimplexInit", "Simplex", "Report"}

\* The aggregate score of the current cycle's inputs at an offset.
ScoreAt(offset) ==
    AggregateScore(offset, experiments, refl_lists, solution_lists, amax_list)

\* C4 as stated: whenever stage 1 succeeded, the score at the final offset
\* of stage 2 is at least the highest grid score of stage 1.
C4_FinalNotBelowBestGrid ==
    (pc = "Report" /\ scores # <<>>) => ScoreAt(new_offset) >= MaxSeq(scores)

\* C4 as amended: whenever stage 1 succeeded, the winning offset that seeds
\* stage 2 scores more than 90% of the highest grid score, and the final
\* offset is that winner plus the simplex solution.
C4_WinnerAbove90Percent ==
    (InOptimizer /\ scores # <<>>) =>
        /\ wide_search_offset # "None"
        /\ SelDen * ScoreAt(wide_search_offset) > SelNum * MaxSeq(scores)
        /\ pc = "Report" =>
              new_offset = Add2(Scale2(SimplexScale, x), wide_search_offset)

C4_Witness ==
    /\ pc = "Report"
    /\ scores # <<>>
    /\ ScoreAt(wide_search_offset) < MaxSeq(scores)
    /\ ScoreAt(new_offset) < MaxSeq(scores)

Alternating(ph) ==
    \A j \in 1..Len(ph) :
        ph[j] = IF j % 2 = 1 THEN "Collecting" ELSE "Optimizing"

\* C5: a run without error makes exactly n_macro_cycles rounds of Collecting
\* then Optimizing, one after another; round 1 gets the caller's experiments,
\* round k+1 the experiments round k returned, and the experiments written at
\* the end are those the last round returned.
C5_RoundsChained ==
    /\ Alternating(phases)
    /\ Len(roundIn) >= 1 => roundIn[1] = caller
    /\ \A k \in 1..Len(roundIn) : k > 1 => roundIn[k] = roundOut[k - 1]
    /\ pc = "Converged" =>
          /\ Len(phases) = 2 * params.n_macro_cycles
          /\ Len(roundIn) = params.n_macro_cycles
          /\ Len(roundOut) = params.n_macro_cycles
          /\ written
          /\ output = roundOut[params.n_macro_cycles]

C5_Witness ==
    /\ pc = "Converged"
    /\ params.n_macro_cycles >= 2
    /\ roundOut[1] # roundIn[1]
    /\ output # roundOut[1]

RECURSIVE NonEmptyInOrder(_, _)
NonEmptyInOrder(res, upto) ==
    IF upto = 0 THEN <<>>
    ELSE IF Len(res[upto].solutions) > 0
         THEN Append(NonEmptyInOrder(res, upto - 1), res[upto])
         ELSE NonEmptyInOrder(res, upto - 1)

\* C6: whatever the pool size and the order in which the units finish, the
\* aggregated lists hold the non-empty results in experiment input order.
C6_AggregationInInputOrder ==
    AllCollected =>
        LET expected == NonEmptyInOrder(result, N)
        IN  /\ solution_lists =
                  [j \in 1..Len(expected) |-> expected[j].solutions]
            /\ amax_list = [j \in 1..Len(expected) |-> expected[j].amax]

C6_Witness ==
    /\ pc = "Collecting"
    /\ AllCollected
    /\ params.nproc >= 2
    /\ Len(finishOrder) >= 2
    /\ finishOrder[1] > finishOrder[2]
    /\ Len(solution_lists) >= 2

\* C7: the optimizer returns one experiment per input experiment, each with
\* its own detector shifted by the one resolved offset, and the detectors of
\* the experiments it was given are as they were when the round started.
C7_SameShiftOnCopies ==
    pc = "Report" =>
        /\ Len(new_experiments) = N
        /\ \A i \in 1..N :
              /\ new_experiments[i].detector.origin =
                    Add2(experiments[i].detector.origin, new_offset)
              /\ new_experiments[i].detector.px = experiments[i].detector.px
              /\ experiments[i].detector = roundIn[Len(roundIn)][i].detector

C7_Witness ==
    /\ pc = "Report"
    /\ N >= 2
    /\ new_offset # Zero2
    /\ experiments[1].detector # experiments[2].detector

FatalErrors ==
    {"input beam does not intersect detector", "No solutions found",
     "No valid scores"}

\* C8: once a fatal error was raised nothing further happens: the failed
\* step is not retried, no macro-cycle is started, and no experiment list is
\* emitted or written.
C8_ErrorIsTerminal ==
    [][/\ err \in FatalErrors => UNCHANGED vars
       /\ err' \in FatalErrors => (~written' /\ output' = <<>>)]_vars

C8_Witness ==
    /\ err \in FatalErrors
    /\ cycle >= 1
    /\ cycle < params.n_macro_cycles
    /\ ~written

BeamMissed == err = "input beam does not intersect detector"

\* C9: when the beam of the first experiment misses its detector the round
\* fails with the beam error before anything else: no reflection table is
\* projected, no unit is submitted to the pool and no score is evaluated.
C9_BeamCheckFirst ==
    /\ BeamMissed =>
          /\ pc = "Failed"
          /\ refl_lists = <<>>
          /\ task = <<>>
          /\ gridEvals = 0
          /\ targetEvals = 0
    /\ pc \in {"Collecting", "Stage1", "SimplexInit", "Simplex", "Report"} =>
          OnPanel(experiments[1].detector.origin)
    /\ (pc = "Failed" /\ ~OnPanel(experiments[1].detector.origin)) =>
          BeamMissed

C9_Witness == BeamMissed /\ N >= 2 /\ Len(roundIn) = 1

\* C10: with mm_search_scope zero no grid score is evaluated, "No valid
\* scores" is not raised, and the final offset is the simplex solution alone,
\* mapped through the basis.
C10_Stage1Skipped ==
    params.mm_search_scope = 0 =>
        /\ scores = <<>>
        /\ gridEvals = 0
        /\ wide_search_offset = "None"
        /\ err # "No valid scores"
        /\ pc = "Report" => new_offset = Scale2(SimplexScale, x)

C10_Witness ==
    /\ params.mm_search_scope = 0
    /\ pc = "Report"
    /\ targetEvals > 0
    /\ new_offset # Zero2

\* The grid of the current cycle was scored completely and is not all zero.
GridScored == scores # <<>> /\ ~AllZero(scores)

RangeOf(sq) == {sq[k] : k \in 1..Len(sq)}

\* C13 as stated: the candidates are exactly the grid points scoring at
\* least 90% of the highest grid score.
C13_CandidatesAtLeast90 ==
    GridScored =>
        RangeOf(potential_offsets) =
            {scoredAt[k] : k \in {j \in 1..Len(scores) :
                SelDen * scores[j] >= SelNum * MaxSeq(scores)}}

Above90(k) == SelDen * scores[k] > SelNum * MaxSeq(scores)

\* C13 as amended: the candidates are exactly the grid points scoring
\* strictly more than 90% of the highest grid score, each listed once; a
\* point scoring exactly 0.9 times the maximum is not a candidate.
C13_CandidatesAbove90 ==
    GridScored =>
        /\ RangeOf(potential_offsets) =
              {scoredAt[k] : k \in {j \in 1..Len(scores) : Above90(j)}}
        /\ Len(potential_offsets) =
              Cardinality({j \in 1..Len(scores) : Above90(j)})

C13_Witness ==
    /\ GridScored
    /\ potential_offsets # <<>>
    /\ \E k \in 1..Len(scores) :
          /\ SelDen * scores[k] = SelNum * MaxSeq(scores)
          /\ scoredAt[k] \notin RangeOf(potential_offsets)

\* C14: the stage-1 winner is the offset at which the score of a candidate
\* was evaluated, and no candidate has a smaller offset magnitude.
C14_WinnerIsNearestCandidate ==
    (InOptimizer /\ scores # <<>>) =>
        \E k \in 1..Len(scores) :
            /\ Above90(k)
            /\ wide_search_offset = scoredAt[k]
            /\ \A j \in 1..Len(scores) :
                  Above90(j) => Norm2(scoredAt[k]) <= Norm2(scoredAt[j])

C14_Witness ==
    /\ InOptimizer
    /\ Len(potential_offsets) >= 2
    /\ wide_search_offset # Zero2
    /\ \E j \in 1..Len(potential_offsets) :
          Norm2(potential_offsets[j]) > Norm2(wide_search_offset)

\* C15: with stage 1 enabled the grid has radius
\* r = max(1, floor(mm_search_scope / (pixel_size * wide_search_binning))),
\* its (2r+1)^2 points are spaced by pixel_size * wide_search_binning on both
\* axes, the zero offset is one of them, and each is scored exactly once.
C15_GridShape ==
    scores # <<>> =>
        LET step == experiments[1].detector.px * params.wide_search_binning
            q == params.mm_search_scope \div step
            r == IF q >= 1 THEN q ELSE 1
            points == {<<a * step, b * step>> : a \in -r..r, b \in -r..r}
        IN  /\ params.mm_search_scope > 0
            /\ Len(scores) = (2 * r + 1) * (2 * r + 1)
            /\ Len(scoredAt) = Len(scores)
            /\ gridEvals = Len(scores)
            /\ RangeOf(scoredAt) = points
            /\ Zero2 \in RangeOf(scoredAt)
            /\ \A j, k \in 1..Len(scoredAt) :
                  scoredAt[j] = scoredAt[k] => j = k

C15_Witness ==
    /\ scores # <<>>
    /\ params.mm_search_scope <
          experiments[1].detector.px * params.wide_search_binning
    /\ Len(scoredAt) = 9
    /\ <<2, 2>> \in RangeOf(scoredAt)

\* C18: whenever stage 1 does not raise "No valid scores" at least one grid
\* point passes the selection, so that a winning offset is defined, also
\* when the highest grid score is zero or negative.
C18_CandidatesNeverEmpty ==
    GridScored =>
        /\ potential_offsets # <<>>
        /\ wide_search_offset # "None"

InRound ==
    pc \in {"Collecting", "Stage1", "SimplexInit", "Simplex", "Report",
            "Failed"}

\* C16: scoring has no side effects: once the scorer was called, the
\* experiments passed to it are as they were when the round started and the
\* reflection tables passed to it are as the projection left them.
C16_ScoringHasNoSideEffects ==
    (InRound /\ scorerCalls # {}) =>
        /\ experiments = roundIn[Len(roundIn)]
        /\ refl_lists =
              [i \in 1..N |-> Project(reflections[i], i, experiments[i])]

\* C17: every scorer call for experiment i is given the solutions and the
\* amax that the direction finder produced for experiment i in this cycle.
C17_ScorerGetsOwnSolutions ==
    InRound =>
        \A c \in scorerCalls :
            /\ c.solutions = result[c.expt].solutions
            /\ c.amax = result[c.expt].amax

\* C19: an experiment without a goniometer is handled in every phase: no
\* step of a run over such an experiment fails on the missing goniometer.
C19_NoGoniometerHandled ==
    (\E i \in 1..N : experiments[i].goniometer = "none") =>
        err # "AttributeError"

\* C11: two calls of run() with the same experiments, reflections and
\* configuration, the seed included, select the same reflections and start
\* the simplex from the same vertices.
C11_SameSeedSameDraws ==
    (runNo = MaxRuns /\ spc = "Done") =>
        \A r \in 1..MaxRuns :
            /\ subsets[r] = subsets[1]
            /\ simplexes[r] = simplexes[1]

\* C12: for every s0 of a valid beam the construction of the basis ends
\* with a basis, its three pairwise dot products are zero and s0, beamr1
\* and beamr2 each have norm 1.
C12_BasisOrthonormal ==
    (bpc \in {"Built", "ZeroDivisionError", "AssertionError"}) =>
        /\ bpc = "Built"
        /\ DotIsZero(Col(s0), beamr1)
        /\ DotIsZero(Col(s0), beamr2)
        /\ DotIsZero(beamr1, beamr2)
        /\ IsUnit(Col(s0))
        /\ IsUnit(beamr1)
        /\ IsUnit(beamr2)
====
